---- MODULE Spec2Model ----
(***************************************************************************)
(* Gala (Git Author Line Analyzer): the command line program of cli.ts     *)
(* (parseArgs, file discovery, the two processors, the display functions)  *)
(* and the bounded pool processWithPool of processor.ts, which the program *)
(* calls and which is also exported for any processor.                     *)
(*                                                                         *)
(* Strings are sequences of chunks (a chunk is a character or a run of     *)
(* characters that the code never looks into), so that startsWith, trim,   *)
(* substring and === are computed and not assumed.                         *)
(***************************************************************************)
EXTENDS Integers, Sequences, FiniteSets, TLC

\* ------------------------------------------------------------------ bounds
MaxArgs  == 3    \* longest argv (after process.argv.slice(2))
MaxFiles == 2    \* most files findFiles yields
MaxRules == 2    \* most lines of the .gitignore file
MaxLines == 2    \* most lines of blame output in one run, all files together
MaxItems == 3    \* longest item list handed to processWithPool directly
MaxLimit == 2    \* largest concurrencyLimit handed to processWithPool directly

\* ------------------------------------------------------- program constants
CONCURRENCY_LIMIT == 50
BATCH_SIZE == 50

\* ----------------------------------------------------------------- strings
S_empty  == << >>
S_dot    == <<".">>
S_d      == <<"d">>
S_A      == <<"A">>
S_spA    == <<" ", "A">>
S_sp     == <<" ">>
S_ctor   == <<"constructor">>
S_branch == <<"-", "-branch">>
S_tag    == <<"-", "-tag">>
S_x      == <<"-", "x">>
Undefined == <<"undefined!">>      \* the JavaScript value undefined, no string

Whitespace == {" ", "\t"}

\* String.prototype.startsWith(prefix) for a one-chunk prefix
startsWith(s, chunk) == Len(s) >= 1 /\ s[1] = chunk

\* truthiness of a string-or-undefined value
TruthyStr(s) == s # Undefined /\ s # S_empty

RECURSIVE TrimStart(_)
TrimStart(s) == IF s # << >> /\ s[1] \in Whitespace THEN TrimStart(Tail(s)) ELSE s

RECURSIVE TrimEnd(_)
TrimEnd(s) ==
    IF s # << >> /\ s[Len(s)] \in Whitespace
    THEN TrimEnd(SubSeq(s, 1, Len(s) - 1)) ELSE s

\* String.prototype.trim
trim(s) == TrimEnd(TrimStart(s))

\* String.prototype.endsWith(suffix) for a one-chunk suffix
endsWith(s, chunk) == Len(s) >= 1 /\ s[Len(s)] = chunk

\* String.prototype.includes(part) for a one-chunk part
includes(s, chunk) == \E j \in 1..Len(s) : s[j] = chunk

\* String.prototype.split(sep) for a one-chunk separator
RECURSIVE splitFrom(_, _, _)
splitFrom(s, sep, cur) ==
    IF s = << >> THEN <<cur>>
    ELSE IF Head(s) = sep THEN <<cur>> \o splitFrom(Tail(s), sep, << >>)
         ELSE splitFrom(Tail(s), sep, Append(cur, Head(s)))

split(s, sep) == splitFrom(s, sep, << >>)

\* all sequences over S of length at most n
SeqsUpTo(S, n) == UNION { [1..k -> S] : k \in 0..n }

RECURSIVE SumTo(_, _)
SumTo(f, n) == IF n = 0 THEN 0 ELSE f[n] + SumTo(f, n - 1)

\* --------------------------------------------------------------- variables
VARIABLES
    pc,                    \* position of the main program / of the caller
    argv,                  \* process.argv.slice(2)
    parsed,                \* what parseArgs returned
    targetUser,            \* cli.ts: user filter (Undefined when absent)
    targetDir,             \* cli.ts: resolved target directory
    gitignore,             \* the .gitignore file of the target directory
    gitignorePatterns,     \* cli.ts: gitignorePatterns
    scanned,               \* findFiles: what the scan of the directory yielded
    files,                 \* cli.ts: files found
    remote,                \* cli.ts: isRemote, the temporary clone, the handlers
    kind,                  \* which processor the pool runs
    items,                 \* processWithPool: items
    concurrencyLimit,      \* processWithPool: concurrencyLimit
    results,               \* processWithPool: results array
    completed,             \* processWithPool: _completed
    runningCount,          \* processWithPool: runningCount
    nextIndex,             \* processWithPool: nextIndex
    st,                    \* per item: where its promise chain stands
    outcome,               \* per item: what the processor promise settled with
    resolved,              \* value the pool promise resolved with
    resolveCalls,          \* number of calls of resolve
    blame,                 \* per file: what the blame process produced
    allAuthors,            \* cli.ts general mode: allAuthors
    userFileContributions, \* cli.ts single-author mode: userFileContributions
    contributionKeys,      \* the keys of userFileContributions in insertion order
    processedCount,        \* updateProgress: processedCount
    authorCounts,          \* displayGeneralContributions: authorCounts
    sorted,                \* sortedAuthors / sortedFiles: the ranked list printed
    summary                \* the summary table that was printed

cliVars  == <<argv, parsed, targetUser, targetDir, gitignore, gitignorePatterns,
              scanned, files, remote>>
poolVars == <<kind, items, concurrencyLimit, results, completed, runningCount,
              nextIndex, st, outcome, resolved, resolveCalls>>
aggVars  == <<blame, allAuthors, userFileContributions, contributionKeys,
              processedCount, authorCounts, sorted, summary>>
vars     == <<pc, cliVars, poolVars, aggVars>>

\* ----------------------------------------------------------------- parseArgs
ArgTokens == {S_d, S_A, S_empty, S_branch, S_tag, S_x}

NoOptions == [branch |-> Undefined, tag |-> Undefined]

\* the for loop of parseArgs; i is the 1-based index of the argument looked at
RECURSIVE parseLoop(_, _, _)
parseLoop(args, i, acc) ==
    IF i > Len(args) THEN acc
    ELSE LET arg == args[i] IN
         IF arg = S_branch /\ i + 1 <= Len(args)
         THEN parseLoop(args, i + 2,
                        [acc EXCEPT !.options.branch = args[i + 1]])
         ELSE IF arg = S_tag /\ i + 1 <= Len(args)
         THEN parseLoop(args, i + 2,
                        [acc EXCEPT !.options.tag = args[i + 1]])
         ELSE IF ~startsWith(arg, "-")
         THEN IF acc.target = S_dot
              THEN parseLoop(args, i + 1, [acc EXCEPT !.target = arg])
              ELSE IF ~TruthyStr(acc.user)
              THEN parseLoop(args, i + 1, [acc EXCEPT !.user = arg])
              ELSE parseLoop(args, i + 1, acc)
         ELSE parseLoop(args, i + 1, acc)

parseArgs(args) ==
    LET r == parseLoop(args, 1,
                 [target |-> Undefined, user |-> Undefined, options |-> NoOptions])
    IN  IF ~TruthyStr(r.target) THEN [r EXCEPT !.target = S_dot] ELSE r

NotParsed == [target |-> Undefined, user |-> Undefined, options |-> NoOptions]


\* ------------------------------------------------------------ JavaScript values
Hole     == [t |-> "hole"]                    \* an array slot never assigned
Rejected == [t |-> "rejected"]                \* the processor promise rejected
NoOutcome == [t |-> "none"]                   \* the processor has not settled
NumV(n)  == [t |-> "num", n |-> n]
ArrV(a)  == [t |-> "arr", a |-> a]
ObjV(f, c) == [t |-> "obj", file |-> f, count |-> c]
StrV(k)  == [t |-> "str", n |-> k]            \* the source text of Object followed by k digits 1
FnV      == [t |-> "fn", n |-> 0]             \* the function Object
UndefV   == [t |-> "undef", n |-> 0]

\* Boolean(v)
Boolean(v) ==
    CASE v.t = "num"   -> v.n # 0
      [] v.t = "undef" -> FALSE
      [] v.t = "hole"  -> FALSE
      [] OTHER         -> TRUE

\* Array.prototype.filter(Boolean): holes are skipped, falsy values dropped
filterBoolean(arr) == SelectSeq(arr, Boolean)

\* property names every object literal inherits from Object.prototype
S_proto == <<"__proto__">>
InheritedKeys == {S_ctor, S_proto}

\* obj[k] on an object literal whose own properties are DOMAIN obj; an
\* inherited name yields a truthy object (the function Object for "constructor")
GetProp(obj, k) ==
    IF k \in DOMAIN obj THEN obj[k]
    ELSE IF k \in InheritedKeys THEN FnV
    ELSE UndefV

\* obj[k] = v for a primitive v: the __proto__ setter ignores primitives
SetProp(obj, k, v) ==
    IF k = S_proto THEN obj
    ELSE [x \in DOMAIN obj \cup {k} |-> IF x = k THEN v ELSE obj[x]]

\* the own keys of an object in insertion order, after obj[k] = v: a new key
\* goes to the end, __proto__ never becomes a key
insertKey(keys, k) ==
    IF k = S_proto \/ (\E j \in 1..Len(keys) : keys[j] = k) THEN keys
    ELSE Append(keys, k)

\* Object.entries(obj) of an object whose keys were inserted in this order
objectEntries(obj, keys) ==
    LET own(k) == k \in DOMAIN obj
        ks     == SelectSeq(keys, own)
    IN  [j \in 1..Len(ks) |-> [key |-> ks[j], value |-> obj[ks[j]]]]

\* (x || 0) + 1
OrZeroPlusOne(x) ==
    LET y == IF Boolean(x) THEN x ELSE NumV(0) IN
    CASE y.t = "num" -> NumV(y.n + 1)
      [] y.t = "fn"  -> StrV(1)
      [] y.t = "str" -> StrV(y.n + 1)

EmptyObj == [x \in {} |-> 0]

\* ------------------------------------------------------------ processWithPool
NotResolved == [done |-> FALSE, value |-> << >>]

\* a slip: resolve only once every item has completed successfully
processNextAllCompleted(s, n, res) ==
    IF s.nextIndex >= n
    THEN IF s.runningCount = 0 /\ completed = n
         THEN [s EXCEPT !.resolved = IF @.done THEN @
                                     ELSE [done |-> TRUE, value |-> SelectSeq(res, Boolean)],
                        !.resolveCalls = @ + 1]
         ELSE s
    ELSE [s EXCEPT !.nextIndex = @ + 1,
                   !.runningCount = @ + 1,
                   !.st[s.nextIndex + 1] = "running"]

\* a slip: resolve as soon as no item is left to start
processNextEarlyResolve(s, n, res) ==
    IF s.nextIndex >= n
    THEN [s EXCEPT !.resolved = IF @.done THEN @
                                ELSE [done |-> TRUE, value |-> SelectSeq(res, Boolean)],
                   !.resolveCalls = @ + 1]
    ELSE [s EXCEPT !.nextIndex = @ + 1,
                   !.runningCount = @ + 1,
                   !.st[s.nextIndex + 1] = "running"]

\* a slip: an item is started only when no worker is running
processNextWhenIdle(s, n, res) ==
    IF s.nextIndex >= n
    THEN IF s.runningCount = 0
         THEN [s EXCEPT !.resolved = IF @.done THEN @
                                     ELSE [done |-> TRUE, value |-> SelectSeq(res, Boolean)],
                        !.resolveCalls = @ + 1]
         ELSE s
    ELSE IF s.runningCount > 0 THEN s
    ELSE [s EXCEPT !.nextIndex = @ + 1,
                   !.runningCount = @ + 1,
                   !.st[s.nextIndex + 1] = "running"]

\* a slip: the index of the item to start is taken from runningCount
processNextByRunning(s, n, res) ==
    IF s.nextIndex >= n
    THEN IF s.runningCount = 0
         THEN [s EXCEPT !.resolved = IF @.done THEN @
                                     ELSE [done |-> TRUE, value |-> SelectSeq(res, Boolean)],
                        !.resolveCalls = @ + 1]
         ELSE s
    ELSE [s EXCEPT !.nextIndex = @ + 1,
                   !.runningCount = @ + 1,
                   !.st[s.runningCount + 1] = "running"]

\* processNext, on s = [nextIndex, runningCount, st, resolved, resolveCalls];
\* n is items.length and res the results array
processNext(s, n, res) ==
    IF s.nextIndex >= n
    THEN IF s.runningCount = 0
         THEN [s EXCEPT !.resolved = IF @.done THEN @
                                     ELSE [done |-> TRUE, value |-> filterBoolean(res)],
                        !.resolveCalls = @ + 1]
         ELSE s
    ELSE [s EXCEPT !.nextIndex = @ + 1,
                   !.runningCount = @ + 1,
                   !.st[s.nextIndex + 1] = "running"]

Min(a, b) == IF a <= b THEN a ELSE b

\* a slip: the whole list is started at once
initialBatchAll(limit, n) == n

\* const initialBatch = Math.min(concurrencyLimit, items.length)
initialBatch(limit, n) == Min(limit, n)

\* for (let i = 0; i < initialBatch; i++) processNext();
RECURSIVE initialLoop(_, _, _, _)
initialLoop(k, s, n, res) ==
    IF k = 0 THEN s ELSE initialLoop(k - 1, processNext(s, n, res), n, res)

\* the body of processWithPool up to the return of the promise
StartPool(its, limit) ==
    LET n   == Len(its)
        res == [i \in 1..n |-> Hole]
        s0  == [nextIndex |-> 0, runningCount |-> 0,
                st |-> [i \in 1..n |-> "pending"],
                resolved |-> NotResolved, resolveCalls |-> 0]
        s1  == initialLoop(initialBatch(limit, n), s0, n, res)
    IN  /\ items' = its
        /\ concurrencyLimit' = limit
        /\ results' = res
        /\ completed' = 0
        /\ outcome' = [i \in 1..n |-> NoOutcome]
        /\ nextIndex' = s1.nextIndex
        /\ runningCount' = s1.runningCount
        /\ st' = s1.st
        /\ resolved' = s1.resolved
        /\ resolveCalls' = s1.resolveCalls

\* .then((result) => { results[currentIndex] = result; onProgress(); _completed++ })
ThenHandler(i) ==
    /\ pc = "pool"
    /\ i \in DOMAIN st /\ st[i] = "fulfilled"
    /\ results' = [results EXCEPT ![i] = outcome[i]]
    /\ processedCount' = processedCount + 1
    /\ completed' = completed + 1
    /\ st' = [st EXCEPT ![i] = "stored"]
    /\ UNCHANGED <<pc, cliVars, kind, items, concurrencyLimit, runningCount,
                   nextIndex, outcome, resolved, resolveCalls, blame,
                   allAuthors, userFileContributions, contributionKeys,
                   authorCounts, sorted, summary>>

\* a slip: the catch handler reports progress too
CatchHandlerWithProgress(i) ==
    /\ pc = "pool"
    /\ i \in DOMAIN st /\ st[i] = "rejected"
    /\ st' = [st EXCEPT ![i] = "logged"]
    /\ processedCount' = processedCount + 1
    /\ UNCHANGED <<pc, cliVars, kind, items, concurrencyLimit, results, completed,
                   runningCount, nextIndex, outcome, resolved, resolveCalls,
                   blame, allAuthors, userFileContributions, contributionKeys,
                   authorCounts, sorted, summary>>

\* .catch((err) => { console.error(...) })
CatchHandler(i) ==
    /\ pc = "pool"
    /\ i \in DOMAIN st /\ st[i] = "rejected"
    /\ st' = [st EXCEPT ![i] = "logged"]
    /\ UNCHANGED <<pc, cliVars, kind, items, concurrencyLimit, results, completed,
                   runningCount, nextIndex, outcome, resolved, resolveCalls,
                   aggVars>>

\* a slip: the handler frees the slot and starts nothing
FinallyHandlerNoRefill(i) ==
    /\ pc = "pool"
    /\ i \in DOMAIN st /\ st[i] \in {"stored", "logged"}
    /\ runningCount' = runningCount - 1
    /\ st' = [st EXCEPT ![i] = "done"]
    /\ UNCHANGED <<pc, cliVars, kind, items, concurrencyLimit, results, completed,
                   nextIndex, outcome, resolved, resolveCalls, aggVars>>

\* .finally(() => { runningCount--; processNext(); })
FinallyHandler(i) ==
    /\ pc = "pool"
    /\ i \in DOMAIN st /\ st[i] \in {"stored", "logged"}
    /\ LET s0 == [nextIndex |-> nextIndex, runningCount |-> runningCount - 1,
                  st |-> [st EXCEPT ![i] = "done"],
                  resolved |-> resolved, resolveCalls |-> resolveCalls]
           s1 == processNext(s0, Len(items), results)
       IN  /\ nextIndex' = s1.nextIndex
           /\ runningCount' = s1.runningCount
           /\ st' = s1.st
           /\ resolved' = s1.resolved
           /\ resolveCalls' = s1.resolveCalls
    /\ UNCHANGED <<pc, cliVars, kind, items, concurrencyLimit, results, completed,
                   outcome, aggVars>>

\* a processor supplied by a caller of the exported function: it fulfils with
\* some value of R or rejects
GenericOutcomes == {Rejected, NumV(0), NumV(1), NumV(2)}

GenericProcessor(i) ==
    /\ pc = "pool" /\ kind = "generic"
    /\ i \in DOMAIN st /\ st[i] = "running"
    /\ \E o \in GenericOutcomes :
         /\ outcome' = [outcome EXCEPT ![i] = o]
         /\ st' = [st EXCEPT ![i] = IF o.t = "rejected" THEN "rejected" ELSE "fulfilled"]
    /\ UNCHANGED <<pc, cliVars, kind, items, concurrencyLimit, results, completed,
                   runningCount, nextIndex, resolved, resolveCalls, aggVars>>

\* a processor supplied by a caller whose promise never settles: the item
\* stays in flight for good
Hang(i) ==
    /\ pc = "pool" /\ kind = "generic"
    /\ i \in DOMAIN st /\ st[i] = "running"
    /\ st' = [st EXCEPT ![i] = "hung"]
    /\ UNCHANGED <<pc, cliVars, kind, items, concurrencyLimit, results, completed,
                   runningCount, nextIndex, outcome, resolved, resolveCalls, aggVars>>

\* a caller awaiting processWithPool(items, limit, processor, onProgress)
LibCall ==
    /\ pc = "lib"
    /\ StartPool(items, concurrencyLimit)
    /\ pc' = "pool"
    /\ UNCHANGED <<cliVars, kind, aggVars>>

LibAwait ==
    /\ pc = "pool" /\ kind = "generic"
    /\ resolved.done
    /\ pc' = "returned"
    /\ UNCHANGED <<cliVars, poolVars, aggVars>>

\* ------------------------------------------------------------ getAuthorsFromFile
\* a line of the --line-porcelain output: "author <name>", or a content line
\* (a tab, then the text of the source line)
AuthorLine(id) == <<"author ">> \o id
ContentLine    == <<"\t", "author ", "A">>

Identities == {S_A, S_spA, S_sp, S_ctor}
BlameLines == {AuthorLine(id) : id \in Identities} \cup {ContentLine}

NoBlame    == [status |-> "none", lines |-> << >>]
SpawnError == [status |-> "error", lines |-> << >>]   \* Bun.spawn threw
BlameOk(ls) == [status |-> "ok", lines |-> ls]        \* output.split("\n")
\* what one blame process can produce when r more lines fit the run
BlameOutputs(r) == {SpawnError} \cup {BlameOk(ls) : ls \in SeqsUpTo(BlameLines, r)}

RECURSIVE linesIn(_)
linesIn(bs) == IF bs = << >> THEN 0 ELSE Len(Head(bs).lines) + linesIn(Tail(bs))

\* for (const line of lines) if (line.startsWith("author ")) authors.push(line.substring(7))
RECURSIVE authorsOf(_)
authorsOf(lines) ==
    IF lines = << >> THEN << >>
    ELSE IF startsWith(Head(lines), "author ")
         THEN <<Tail(Head(lines))>> \o authorsOf(Tail(lines))
         ELSE authorsOf(Tail(lines))

\* a slip: the comparison ignores surrounding blanks
RECURSIVE countEqualTrimmed(_, _)
countEqualTrimmed(authors, u) ==
    IF authors = << >> THEN 0
    ELSE (IF trim(Head(authors)) = u THEN 1 ELSE 0) + countEqualTrimmed(Tail(authors), u)

\* authors.filter((author) => author === filterUser).length
RECURSIVE countEqual(_, _)
countEqual(authors, u) ==
    IF authors = << >> THEN 0
    ELSE (IF Head(authors) = u THEN 1 ELSE 0) + countEqual(Tail(authors), u)

getAuthorsFromFile(b, filterUser) ==
    IF b.status = "error"
    THEN IF TruthyStr(filterUser) THEN NumV(0) ELSE ArrV(<< >>)
    ELSE LET authors == authorsOf(b.lines) IN
         IF TruthyStr(filterUser)
         THEN NumV(countEqual(authors, filterUser))
         ELSE ArrV(authors)

\* ------------------------------------------------------------------- cli.ts
\* node:path resolve, join and relative on the paths the program builds
resolve(t)       == IF t = S_dot THEN <<"/cwd">> ELSE <<"/cwd", "/">> \o t
join(dir, rel)   == [dir |-> dir, rel |-> rel]
relative(dir, f) == IF f.dir = dir THEN f.rel ELSE <<"..">> \o f.rel

\* relative paths of source files a scan of the target directory can yield
AllPaths == << <<"a", ".txt">>, <<"__proto__">>, <<"src", "/", "b", ".txt">> >>

NoSummary == [mode |-> "none", totalLines |-> 0, distinct |-> 0, filesProcessed |-> 0]

ParseArgs ==
    /\ pc = "start"
    /\ parsed' = parseArgs(argv)
    /\ pc' = "parsed"
    /\ UNCHANGED <<argv, targetUser, targetDir, gitignore, gitignorePatterns,
                   scanned, files, remote, poolVars, aggVars>>

\* isRemoteUrl: ^https?://, ^git@, ^ssh://, ^git://, \.git$
isRemoteUrl(input) ==
    \/ Len(input) >= 1 /\ input[1] \in {"https://", "http://", "git@", "ssh://", "git://"}
    \/ Len(input) >= 1 /\ input[Len(input)] = ".git"

\* ------------------------------------------------------------------ remote.ts
\* isRemote, the state of the temporary directory (none, partial while git
\* clone writes it, exists, removed), whether setupCleanupHandler has
\* installed the handlers, and the number of calls of cleanupTempDir
NoRemote == [isRemote |-> FALSE, tempDir |-> "none", handlers |-> FALSE,
             cleanupCalls |-> 0]

\* generateTempDir(repoUrl): join(tmpdir(), `gala_${repoName}_${timestamp}`),
\* repoName the part after the last "/" without its ".git"; the URLs used
\* here end with the chunks "/", name, ".git" and the timestamp is left out
generateTempDir(repoUrl) == <<"/tmp", "/", "gala_">> \o <<repoUrl[Len(repoUrl) - 1]>>

\* cleanupTempDir(tempDir): if (existsSync(tempDir)) rmSync(tempDir, ...)
cleanupTempDir(r) ==
    [r EXCEPT !.cleanupCalls = @ + 1,
              !.tempDir = IF @ \in {"partial", "exists"} THEN "removed" ELSE @]

\* the listeners of the "exit" event, run by process.exit and by the end of
\* the script: process.on("exit", () => cleanupTempDir(tempDir))
exitEvent(r) == IF r.handlers THEN cleanupTempDir(r) ELSE r

\* targets the remote branch is entered with
RemoteUrls == {<<"https://", "host/", "r", ".git">>, <<"git@", "host:o/", "s", ".git">>}

\* users the remote branch is entered with: none, or one name
RemoteUsers == {Undefined, S_A}

\* if (isRemoteUrl(target)) { isRemote = true; tempDir = await cloneRepository(...)
\* up to the spawn of git clone
CloneStart ==
    /\ pc = "parsed"
    /\ isRemoteUrl(parsed.target)
    /\ remote' = [isRemote |-> TRUE, tempDir |-> "none", handlers |-> FALSE,
                  cleanupCalls |-> 0]
    /\ targetUser' = parsed.user
    /\ targetDir' = generateTempDir(parsed.target)
    /\ pc' = "cloning"
    /\ argv' = << >>
    /\ parsed' = NotParsed
    /\ UNCHANGED <<gitignore, gitignorePatterns, scanned, files, poolVars, aggVars>>

\* git clone creates the target directory and writes into it
GitCreatesDir ==
    /\ pc = "cloning"
    /\ remote.tempDir = "none"
    /\ remote' = [remote EXCEPT !.tempDir = "partial"]
    /\ UNCHANGED <<pc, argv, parsed, targetUser, targetDir, gitignore,
                   gitignorePatterns, scanned, files, poolVars, aggVars>>

\* git clone ended with exit code 0 and a .git directory: cloneRepository
\* returns, then setupCleanupHandler(tempDir)
CloneOk ==
    /\ pc = "cloning"
    /\ remote.tempDir = "partial"
    /\ remote' = [remote EXCEPT !.tempDir = "exists", !.handlers = TRUE]
    /\ pc' = "setup"
    /\ UNCHANGED <<argv, parsed, targetUser, targetDir, gitignore,
                   gitignorePatterns, scanned, files, poolVars, aggVars>>

\* git clone failed, or left no .git: the catch block of cloneRepository
\* cleans up and rethrows, the catch block of cli.ts calls process.exit(1)
CloneFail ==
    /\ pc = "cloning"
    /\ remote' = exitEvent(IF remote.tempDir # "none"
                          THEN cleanupTempDir(remote) ELSE remote)
    /\ pc' = "exit"
    /\ UNCHANGED <<argv, parsed, targetUser, targetDir, gitignore,
                   gitignorePatterns, scanned, files, poolVars, aggVars>>

\* SIGINT or SIGTERM reaches the process of a remote run. With the handlers
\* of setupCleanupHandler installed: cleanupTempDir(tempDir); process.exit(0).
\* Before that no handler is registered and the signal ends the process.
\* A handler runs between two turns of the event loop, so none runs in the
\* synchronous tail of the script, from the display to the final cleanup.
Signal ==
    /\ remote.isRemote
    /\ pc \notin {"displayed", "exit"}
    /\ remote' = IF remote.handlers THEN exitEvent(cleanupTempDir(remote)) ELSE remote
    /\ pc' = "exit"
    /\ UNCHANGED <<argv, parsed, targetUser, targetDir, gitignore,
                   gitignorePatterns, scanned, files, poolVars, aggVars>>

\* local branch of the setup: resolve(target), validateDirectory(targetDir).
\* args, target and remoteOptions are not read again and are dropped here.
SetupLocal ==
    /\ pc = "parsed"
    /\ ~isRemoteUrl(parsed.target)
    /\ targetUser' = parsed.user
    /\ targetDir' = resolve(parsed.target)
    /\ \E valid \in BOOLEAN : pc' = IF valid THEN "setup" ELSE "exit"
    /\ argv' = << >>
    /\ parsed' = NotParsed
    /\ UNCHANGED <<gitignore, gitignorePatterns, scanned, files, remote, poolVars,
                   aggVars>>

\* ------------------------------------------------------------ parseGitignore
\* lines a .gitignore file is made of
RuleLines ==
    { << >>,                         \* blank
      <<" ">>,                       \* blanks only
      <<"#", "c">>,                  \* comment
      <<"!", "a", ".txt">>,          \* negation
      <<"src", "/">>,                \* directory rule
      <<"*", ".txt">>,               \* name rule
      <<"/", "a", ".txt">>,          \* anchored rule
      <<" ", "__proto__", " ">>,     \* name rule with blanks around it
      <<"src", "/", "b", ".txt">>,   \* path rule
      <<"/", "#", "src", "/">>,      \* anchored directory whose name starts with #
      <<"/", " ", "src", "/", "b", ".txt">> }  \* anchored path whose name starts with a blank

\* the text of a file with these lines
RECURSIVE joinLines(_)
joinLines(ls) ==
    IF ls = << >> THEN << >>
    ELSE IF Len(ls) = 1 THEN ls[1]
    ELSE ls[1] \o <<"\n">> \o joinLines(Tail(ls))

NoGitignore == [status |-> "unread", content |-> << >>]
\* what Bun.file(join(dir, ".gitignore")) can be: absent, unreadable, or a text
GitignoreFiles ==
    {[status |-> "absent", content |-> << >>],
     [status |-> "unreadable", content |-> << >>]}
    \cup {[status |-> "text", content |-> joinLines(ls)] : ls \in SeqsUpTo(RuleLines, MaxRules)}

\* a slip: every rule that is not anchored gets the prefix **/
translateLineAlwaysDeep(raw) ==
    LET line == trim(raw) IN
    IF line = S_empty \/ startsWith(line, "#") THEN << >>
    ELSE IF startsWith(line, "!") THEN << >>
    ELSE LET p1 == IF endsWith(line, "/")
                   THEN SubSeq(line, 1, Len(line) - 1) \o <<"/", "**">> ELSE line
             p2 == IF ~startsWith(p1, "/") THEN <<"**", "/">> \o p1 ELSE p1
             p3 == IF startsWith(p2, "/") THEN Tail(p2) ELSE p2
         IN  <<p3>>

\* a slip: the leading slash is removed before the test for a slash
translateLineAnchorFirst(raw) ==
    LET line == trim(raw) IN
    IF line = S_empty \/ startsWith(line, "#") THEN << >>
    ELSE IF startsWith(line, "!") THEN << >>
    ELSE LET p1 == IF endsWith(line, "/")
                   THEN SubSeq(line, 1, Len(line) - 1) \o <<"/", "**">> ELSE line
             p2 == IF startsWith(p1, "/") THEN Tail(p1) ELSE p1
             p3 == IF ~startsWith(p2, "/") /\ ~includes(p2, "/")
                   THEN <<"**", "/">> \o p2 ELSE p2
         IN  <<p3>>

\* the body of the for loop of parseGitignore: the patterns (none or one)
\* that one line of the file adds to gitignorePatterns
translateLine(raw) ==
    LET line == trim(raw) IN
    IF line = S_empty \/ startsWith(line, "#") THEN << >>
    ELSE IF startsWith(line, "!") THEN << >>
    ELSE LET p1 == IF endsWith(line, "/")
                   THEN SubSeq(line, 1, Len(line) - 1) \o <<"/", "**">> ELSE line
             p2 == IF ~startsWith(p1, "/") /\ ~includes(p1, "/")
                   THEN <<"**", "/">> \o p1 ELSE p1
             p3 == IF startsWith(p2, "/") THEN Tail(p2) ELSE p2
         IN  <<p3>>

\* for (let line of gitignoreContent.split("\n")) { ... }
RECURSIVE translateLines(_)
translateLines(ls) ==
    IF ls = << >> THEN << >>
    ELSE translateLine(Head(ls)) \o translateLines(Tail(ls))

\* parseGitignore(dir) on the file g found there; an absent file returns at
\* once, a failing read is caught, both with no pattern
parseGitignore(g) ==
    IF g.status = "text" THEN translateLines(split(g.content, "\n")) ELSE << >>

\* const gitignorePatterns = await parseGitignore(targetDir)
ParseGitignore ==
    /\ pc = "setup"
    /\ \E g \in GitignoreFiles :
         /\ gitignore' = g
         /\ gitignorePatterns' = parseGitignore(g)
    /\ pc' = "ignored"
    /\ UNCHANGED <<argv, parsed, targetUser, targetDir, scanned, files, remote,
                   poolVars, aggVars>>

\* ---------------------------------------------------------------- findFiles
\* the built-in excludePatterns (three of the list, one of each shape)
excludePatterns ==
    << <<"**", "/", "*", ".png">>,
       <<"**", "/", "node_modules", "/", "**">>,
       <<"**", "/", "*", ".log">> >>

\* one path segment against one pattern segment: * stands for any run of
\* characters of the segment, everything else for itself
RECURSIVE matchName(_, _)
matchName(p, n) ==
    IF p = << >> THEN n = << >>
    ELSE IF Head(p) = "*"
         THEN matchName(Tail(p), n) \/ (n # << >> /\ matchName(p, Tail(n)))
         ELSE n # << >> /\ Head(n) = Head(p) /\ matchName(Tail(p), Tail(n))

\* the segments of a path against the segments of a pattern: ** stands for
\* any number of segments, none included
RECURSIVE matchSegments(_, _)
matchSegments(ps, ns) ==
    IF ps = << >> THEN ns = << >>
    ELSE IF Head(ps) = <<"**">>
         THEN matchSegments(Tail(ps), ns) \/ (ns # << >> /\ matchSegments(ps, Tail(ns)))
         ELSE ns # << >> /\ matchName(Head(ps), Head(ns))
                        /\ matchSegments(Tail(ps), Tail(ns))

\* new Glob(pattern).match(file), for patterns made of names, *, ** and /
globMatch(pattern, file) == matchSegments(split(pattern, "/"), split(file, "/"))

\* a slip: a path is excluded only when every pattern matches it
RECURSIVE shouldExcludeEvery(_, _)
shouldExcludeEvery(file, patterns) ==
    IF patterns = << >> THEN TRUE
    ELSE globMatch(Head(patterns), file) /\ shouldExcludeEvery(file, Tail(patterns))

\* allExcludePatterns.some((pattern) => new Glob(pattern).match(file))
RECURSIVE shouldExclude(_, _)
shouldExclude(file, patterns) ==
    IF patterns = << >> THEN FALSE
    ELSE globMatch(Head(patterns), file) \/ shouldExclude(file, Tail(patterns))

\* the for await loop of findFiles over the entries of the scan
RECURSIVE findLoop(_, _, _)
findLoop(entries, patterns, dir) ==
    IF entries = << >> THEN << >>
    ELSE LET e == Head(entries) IN
         (IF ~shouldExclude(e.path, patterns) /\ e.isFile
          THEN <<join(dir, e.path)>> ELSE << >>)
         \o findLoop(Tail(entries), patterns, dir)

\* entries every scan of the model has besides the files of AllPaths: an
\* image, and a file that is gone when statSync looks at it
ScanExtras ==
    << [path |-> <<"c", ".png">>, isFile |-> TRUE],
       [path |-> <<"gone", ".md">>, isFile |-> FALSE] >>

\* findFiles(targetDir): the files of the scan that no pattern excludes;
\* if (files.length === 0) process.exit(0)
FindFiles ==
    /\ pc = "ignored"
    /\ \E n \in 0..MaxFiles :
         LET sc == [i \in 1..n |-> [path |-> AllPaths[i], isFile |-> TRUE]] \o ScanExtras
             allExcludePatterns == excludePatterns \o parseGitignore(gitignore)
             found == findLoop(sc, allExcludePatterns, targetDir)
         IN  /\ scanned' = sc
             /\ files' = found
             /\ pc' = IF found = << >> THEN "exit" ELSE "found"
             /\ remote' = IF found = << >> THEN exitEvent(remote) ELSE remote
    /\ UNCHANGED <<argv, parsed, targetUser, targetDir, gitignore,
                   gitignorePatterns, poolVars, aggVars>>

\* if (targetUser) { ... await processWithPool(files, CONCURRENCY_LIMIT, ...) };
\* the patterns and the scan are not read again and are dropped here
StartUser ==
    /\ pc = "found"
    /\ TruthyStr(targetUser)
    /\ kind' = "user"
    /\ StartPool(files, CONCURRENCY_LIMIT)
    /\ userFileContributions' = EmptyObj
    /\ contributionKeys' = << >>
    /\ processedCount' = 0
    /\ blame' = [i \in 1..Len(files) |-> NoBlame]
    /\ pc' = "pool"
    /\ gitignore' = NoGitignore /\ gitignorePatterns' = << >> /\ scanned' = << >>
    /\ UNCHANGED <<argv, parsed, targetUser, targetDir, files, remote, allAuthors,
                   authorCounts, sorted, summary>>

\* else { ... await processWithPool(files, CONCURRENCY_LIMIT, ...) }
StartGeneral ==
    /\ pc = "found"
    /\ ~TruthyStr(targetUser)
    /\ kind' = "general"
    /\ StartPool(files, CONCURRENCY_LIMIT)
    /\ allAuthors' = << >>
    /\ processedCount' = 0
    /\ blame' = [i \in 1..Len(files) |-> NoBlame]
    /\ pc' = "pool"
    /\ gitignore' = NoGitignore /\ gitignorePatterns' = << >> /\ scanned' = << >>
    /\ UNCHANGED <<argv, parsed, targetUser, targetDir, files, remote,
                   userFileContributions, contributionKeys, authorCounts,
                   sorted, summary>>

\* single-author processor: await getAuthorsFromFile(file, targetDir, targetUser);
\* if (count > 0) userFileContributions[relativePath] = count; return {file, count}
UserProcessor(i) ==
    /\ pc = "pool" /\ kind = "user"
    /\ i \in DOMAIN st /\ st[i] = "running"
    /\ \E b \in BlameOutputs(MaxLines - linesIn(blame)) :
         LET count == getAuthorsFromFile(b, targetUser).n IN
         /\ blame' = [blame EXCEPT ![i] = b]
         /\ userFileContributions' =
              IF count > 0
              THEN SetProp(userFileContributions, relative(targetDir, items[i]), count)
              ELSE userFileContributions
         /\ contributionKeys' =
              IF count > 0
              THEN insertKey(contributionKeys, relative(targetDir, items[i]))
              ELSE contributionKeys
         /\ outcome' = [outcome EXCEPT ![i] = ObjV(items[i], count)]
    /\ st' = [st EXCEPT ![i] = "fulfilled"]
    /\ UNCHANGED <<pc, cliVars, kind, items, concurrencyLimit, results, completed,
                   runningCount, nextIndex, resolved, resolveCalls,
                   allAuthors, processedCount, authorCounts, sorted, summary>>

\* general processor: await getAuthorsFromFile(file, targetDir);
\* allAuthors.push(...authors); return authors
GeneralProcessor(i) ==
    /\ pc = "pool" /\ kind = "general"
    /\ i \in DOMAIN st /\ st[i] = "running"
    /\ \E b \in BlameOutputs(MaxLines - linesIn(blame)) :
         LET authors == getAuthorsFromFile(b, Undefined).a IN
         /\ blame' = [blame EXCEPT ![i] = b]
         /\ allAuthors' = allAuthors \o authors
         /\ outcome' = [outcome EXCEPT ![i] = ArrV(authors)]
    /\ st' = [st EXCEPT ![i] = "fulfilled"]
    /\ UNCHANGED <<pc, cliVars, kind, items, concurrencyLimit, results, completed,
                   runningCount, nextIndex, resolved, resolveCalls,
                   userFileContributions, contributionKeys, processedCount,
                   authorCounts, sorted, summary>>

\* a slip: the loop stops at the first blank identity instead of skipping it
RECURSIVE countAuthorsUntilBlank(_, _)
countAuthorsUntilBlank(all, acc) ==
    IF all = << >> THEN acc
    ELSE LET author == Head(all) IN
         IF trim(author) # S_empty
         THEN countAuthorsUntilBlank(Tail(all),
                  SetProp(acc, author, OrZeroPlusOne(GetProp(acc, author))))
         ELSE acc

\* for (const author of allAuthors) if (author.trim())
\*   authorCounts[author] = (authorCounts[author] || 0) + 1
RECURSIVE countAuthors(_, _)
countAuthors(all, acc) ==
    IF all = << >> THEN acc
    ELSE LET author == Head(all) IN
         IF trim(author) # S_empty
         THEN countAuthors(Tail(all),
                  SetProp(acc, author, OrZeroPlusOne(GetProp(acc, author))))
         ELSE countAuthors(Tail(all), acc)

\* Object.values(obj).reduce((sum, count) => sum + count, 0)
RECURSIVE sumValues(_)
sumValues(obj) ==
    IF DOMAIN obj = {} THEN 0
    ELSE LET k == CHOOSE x \in DOMAIN obj : TRUE IN
         obj[k] + sumValues([x \in DOMAIN obj \ {k} |-> obj[x]])

\* a slip: the row "Files processed" shows the number of table entries
generalSummarySwapped(all, counts, filesCount) ==
    [mode |-> "general",
     totalLines |-> Len(all),
     distinct |-> Cardinality(DOMAIN counts),
     filesProcessed |-> Cardinality(DOMAIN counts)]

\* summary table of displayGeneralContributions: total lines analyzed,
\* unique authors, files processed
generalSummary(all, counts, filesCount) ==
    [mode |-> "general",
     totalLines |-> Len(all),
     distinct |-> Cardinality(DOMAIN counts),
     filesProcessed |-> filesCount]

\* summary table of displayUserContributions: total lines by the user,
\* files contributed to, files processed
userSummary(contributions, filesCount) ==
    [mode |-> "user",
     totalLines |-> sumValues(contributions),
     distinct |-> Cardinality(DOMAIN contributions),
     filesProcessed |-> filesCount]

\* the keys of authorCounts in insertion order: first occurrences in allAuthors
RECURSIVE authorKeys(_, _)
authorKeys(all, keys) ==
    IF all = << >> THEN keys
    ELSE LET author == Head(all) IN
         IF trim(author) # S_empty
         THEN authorKeys(Tail(all), insertKey(keys, author))
         ELSE authorKeys(Tail(all), keys)

\* .sort(([, a], [, b]) => b - a) on numbers: Array.prototype.sort is stable,
\* so entries of equal count keep the order they had
RECURSIVE sortByCount(_)
sortByCount(es) ==
    IF es = << >> THEN << >>
    ELSE LET front == sortByCount(SubSeq(es, 1, Len(es) - 1))
             e     == es[Len(es)]
             k     == Cardinality({j \in 1..Len(front) : front[j].value.n >= e.value.n})
         IN  SubSeq(front, 1, k) \o <<e>> \o SubSeq(front, k + 1, Len(front))

\* what .sort(([, a], [, b]) => b - a) can return: with a value that is no
\* number b - a is NaN, the comparator is not consistent and the order is
\* whatever the engine's sort makes of it
sortResults(es) ==
    IF \A j \in 1..Len(es) : es[j].value.t = "num"
    THEN {sortByCount(es)}
    ELSE {[j \in 1..Len(es) |-> es[f[j]]] :
             f \in {g \in [1..Len(es) -> 1..Len(es)] :
                       \A x, y \in 1..Len(es) : x # y => g[x] # g[y]}}

\* displayGeneralContributions(allAuthors, files.length)
DisplayGeneral ==
    /\ pc = "pool" /\ kind = "general"
    /\ resolved.done
    /\ authorCounts' = countAuthors(allAuthors, EmptyObj)
    /\ sorted' \in sortResults(objectEntries(authorCounts', authorKeys(allAuthors, << >>)))
    /\ summary' = generalSummary(allAuthors, authorCounts', Len(files))
    /\ pc' = "displayed"
    /\ UNCHANGED <<cliVars, poolVars, blame, allAuthors, userFileContributions,
                   contributionKeys, processedCount>>

\* displayUserContributions(userFileContributions, targetUser, targetDir, files.length)
DisplayUser ==
    /\ pc = "pool" /\ kind = "user"
    /\ resolved.done
    /\ sorted' \in sortResults(objectEntries([k \in DOMAIN userFileContributions |->
                                             NumV(userFileContributions[k])],
                                        contributionKeys))
    /\ summary' = userSummary(userFileContributions, Len(files))
    /\ pc' = "displayed"
    /\ UNCHANGED <<cliVars, poolVars, blame, allAuthors, userFileContributions,
                   contributionKeys, processedCount, authorCounts>>

\* if (isRemote && tempDir) cleanupTempDir(tempDir); then the end of the script
Exit ==
    /\ pc = "displayed"
    /\ remote' = exitEvent(IF remote.isRemote /\ remote.tempDir # "none"
                          THEN cleanupTempDir(remote) ELSE remote)
    /\ pc' = "exit"
    /\ UNCHANGED <<argv, parsed, targetUser, targetDir, gitignore, gitignorePatterns,
                   scanned, files, poolVars, aggVars>>

\* ------------------------------------------- the batch pipeline of gala.ts
\* getAuthorsFromFile(filepath, filterUser) of gala.ts on the blame output b
legacyGetAuthorsFromFile(b, filterUser) ==
    IF b.status = "error"
    THEN IF TruthyStr(filterUser) THEN NumV(0) ELSE ArrV(<< >>)
    ELSE LET authors == authorsOf(b.lines) IN
         IF TruthyStr(filterUser)
         THEN NumV(countEqual(authors, filterUser))
         ELSE ArrV(authors)

\* files.slice(i, i + size), as the 1-based positions of the batch
batchOf(i, size, n) == {j \in 1..n : i < j /\ j <= i + size}

\* for (const authors of batchResults) allAuthors.push(...authors)
RECURSIVE pushBatch(_, _, _, _)
pushBatch(bl, j, last, all) ==
    IF j > last THEN all
    ELSE pushBatch(bl, j + 1, last,
                   all \o legacyGetAuthorsFromFile(bl[j], Undefined).a)

\* a slip: a batch shorter than the batch size is left out
RECURSIVE legacyGeneralLoopFullBatches(_, _, _, _)
legacyGeneralLoopFullBatches(bl, i, size, all) ==
    IF i + size > Len(bl) THEN all
    ELSE legacyGeneralLoopFullBatches(bl, i + size, size,
             pushBatch(bl, i + 1, i + size, all))

\* general mode: for (let i = 0; i < files.length; i += BATCH_SIZE) { ... },
\* Promise.all giving the results of a batch in the order of its files
RECURSIVE legacyGeneralLoop(_, _, _, _)
legacyGeneralLoop(bl, i, size, all) ==
    IF i >= Len(bl) THEN all
    ELSE LET batch == batchOf(i, size, Len(bl)) IN
         legacyGeneralLoop(bl, i + size, size,
             pushBatch(bl, i + 1, i + Cardinality(batch), all))

\* for (const { file, count } of batchResults) if (count > 0) ...
RECURSIVE storeBatch(_, _, _, _, _, _, _)
storeBatch(fs, bl, dir, user, j, last, acc) ==
    IF j > last THEN acc
    ELSE LET count == legacyGetAuthorsFromFile(bl[j], user).n IN
         storeBatch(fs, bl, dir, user, j + 1, last,
                    IF count > 0 THEN SetProp(acc, relative(dir, fs[j]), count) ELSE acc)

\* single-author mode: the batch loop building userFileContributions
RECURSIVE legacyUserLoop(_, _, _, _, _, _, _)
legacyUserLoop(fs, bl, dir, user, i, size, acc) ==
    IF i >= Len(fs) THEN acc
    ELSE LET batch == batchOf(i, size, Len(fs)) IN
         legacyUserLoop(fs, bl, dir, user, i + size, size,
             storeBatch(fs, bl, dir, user, i + 1, i + Cardinality(batch), acc))

\* the tally loop of gala.ts over allAuthors
RECURSIVE legacyCountAuthors(_, _)
legacyCountAuthors(all, acc) ==
    IF all = << >> THEN acc
    ELSE LET author == Head(all) IN
         IF trim(author) # S_empty
         THEN legacyCountAuthors(Tail(all),
                  SetProp(acc, author, OrZeroPlusOne(GetProp(acc, author))))
         ELSE legacyCountAuthors(Tail(all), acc)

\* the summary tables of gala.ts
legacyGeneralSummary(all, counts, fs) ==
    [mode |-> "general",
     totalLines |-> Len(all),
     distinct |-> Cardinality(DOMAIN counts),
     filesProcessed |-> Len(fs)]

legacyUserSummary(contributions, fs) ==
    [mode |-> "user",
     totalLines |-> sumValues(contributions),
     distinct |-> Cardinality(DOMAIN contributions),
     filesProcessed |-> Len(fs)]

\* ------------------------------------------------------------ specification
InitRun ==
    /\ targetUser = Undefined
    /\ targetDir = << >>
    /\ gitignore = NoGitignore
    /\ gitignorePatterns = << >>
    /\ scanned = << >>
    /\ files = << >>
    /\ remote = NoRemote
    /\ results = << >>
    /\ completed = 0
    /\ runningCount = 0
    /\ nextIndex = 0
    /\ st = << >>
    /\ outcome = << >>
    /\ resolved = NotResolved
    /\ resolveCalls = 0
    /\ blame = << >>
    /\ allAuthors = << >>
    /\ userFileContributions = EmptyObj
    /\ contributionKeys = << >>
    /\ processedCount = 0
    /\ authorCounts = EmptyObj
    /\ sorted = << >>
    /\ summary = NoSummary

InitCommon ==
    /\ parsed = NotParsed
    /\ InitRun

\* the program started from the command line
InitCli ==
    /\ pc = "start"
    /\ argv \in SeqsUpTo(ArgTokens, MaxArgs)
    /\ kind = "none"
    /\ items = << >>
    /\ concurrencyLimit = 0
    /\ InitCommon

\* processWithPool called by some other caller with its own processor
InitLib ==
    /\ pc = "lib"
    /\ argv = << >>
    /\ kind = "generic"
    /\ \E n \in 0..MaxItems : items = [i \in 1..n |-> i]
    /\ concurrencyLimit \in 0..MaxLimit
    /\ InitCommon

Init == InitCli \/ InitLib

Next ==
    \/ ParseArgs
    \/ SetupLocal
    \/ ParseGitignore
    \/ FindFiles
    \/ StartUser
    \/ StartGeneral
    \/ LibCall
    \/ \E i \in 1..Len(items) : UserProcessor(i)
    \/ \E i \in 1..Len(items) : GeneralProcessor(i)
    \/ \E i \in 1..Len(items) : GenericProcessor(i)
    \/ \E i \in 1..Len(items) : Hang(i)
    \/ \E i \in 1..Len(items) : ThenHandler(i)
    \/ \E i \in 1..Len(items) : CatchHandler(i)
    \/ \E i \in 1..Len(items) : FinallyHandler(i)
    \/ DisplayGeneral
    \/ DisplayUser
    \/ LibAwait
    \/ Exit

Spec == Init /\ [][Next]_vars

\* the pool alone, under the scheduling the event loop gives: a queued handler
\* runs, and (the hypothesis of the completion claim) every started worker settles
PoolNext ==
    \/ LibCall
    \/ \E i \in 1..Len(items) : GenericProcessor(i)
    \/ \E i \in 1..Len(items) : ThenHandler(i)
    \/ \E i \in 1..Len(items) : CatchHandler(i)
    \/ \E i \in 1..Len(items) : FinallyHandler(i)
    \/ LibAwait

FairPool ==
    /\ InitLib
    /\ [][PoolNext]_vars
    /\ WF_vars(LibCall)
    /\ WF_vars(LibAwait)
    /\ \A i \in 1..(MaxItems + 1) :
         /\ WF_vars(GenericProcessor(i))
         /\ WF_vars(ThenHandler(i))
         /\ WF_vars(CatchHandler(i))
         /\ WF_vars(FinallyHandler(i))

\* the pool alone with workers that may hang: a queued handler runs, and
\* every started worker settles or turns out to hang
HangNext ==
    \/ PoolNext
    \/ \E i \in 1..Len(items) : Hang(i)

FairHang ==
    /\ InitLib
    /\ [][HangNext]_vars
    /\ WF_vars(LibCall)
    /\ WF_vars(LibAwait)
    /\ \A i \in 1..(MaxItems + 1) :
         /\ WF_vars(GenericProcessor(i) \/ Hang(i))
         /\ WF_vars(ThenHandler(i))
         /\ WF_vars(CatchHandler(i))
         /\ WF_vars(FinallyHandler(i))

\* a remote run: cli.ts from the point where parseArgs has returned a remote
\* target (the first argument as the target, the second as the user)
InitRemote ==
    /\ pc = "parsed"
    /\ argv = << >>
    /\ kind = "none"
    /\ items = << >>
    /\ concurrencyLimit = 0
    /\ \E t \in RemoteUrls, u \in RemoteUsers :
         parsed = [target |-> t, user |-> u, options |-> NotParsed.options]
    /\ InitRun

RemoteNext ==
    \/ CloneStart
    \/ GitCreatesDir
    \/ CloneOk
    \/ CloneFail
    \/ Signal
    \/ ParseGitignore
    \/ FindFiles
    \/ StartUser
    \/ StartGeneral
    \/ \E i \in 1..Len(items) : UserProcessor(i)
    \/ \E i \in 1..Len(items) : GeneralProcessor(i)
    \/ \E i \in 1..Len(items) : ThenHandler(i)
    \/ \E i \in 1..Len(items) : FinallyHandler(i)
    \/ DisplayGeneral
    \/ DisplayUser
    \/ Exit

RemoteSpec == InitRemote /\ [][RemoteNext]_vars

\* ---------------------------------------------------------------- properties
\* the values of the items whose worker did not reject, in item order
RECURSIVE fulfilledValues(_)
fulfilledValues(os) ==
    IF os = << >> THEN << >>
    ELSE IF Head(os).t = "rejected" THEN fulfilledValues(Tail(os))
         ELSE <<Head(os)>> \o fulfilledValues(Tail(os))

\* C1: the sequence processWithPool resolves with has one element per item,
\* and its i-th element is the result of the worker on the i-th item.
C1_OneToOne ==
    resolved.done =>
        /\ Len(resolved.value) = Len(items)
        /\ \A i \in 1..Len(items) : resolved.value[i] = outcome[i]

\* C2: when the worker of exactly one item k rejects, the results of all other
\* items are still produced, each the value its own worker fulfilled with.
C2_FaultIsolation ==
    resolved.done =>
        \A k \in 1..Len(items) :
            (/\ outcome[k].t = "rejected"
             /\ \A j \in 1..Len(items) : j # k => outcome[j].t # "rejected")
            => resolved.value = fulfilledValues(outcome)

\* C3: the number of workers in flight is never negative and never above
\* the concurrency limit nor above the number of items.
C3_BoundedConcurrency ==
    /\ 0 <= runningCount
    /\ runningCount <= concurrencyLimit
    /\ runningCount <= Len(items)

\* C3 witness: a slot was freed and refilled while the pool runs at its limit
\* with items still waiting
C3_Witness ==
    /\ pc = "pool"
    /\ concurrencyLimit >= 1
    /\ runningCount = concurrencyLimit
    /\ nextIndex < Len(items)
    /\ \E i \in 1..Len(items) : st[i] = "done"

\* C4: for a non-empty item list and a limit of at least 1, when every started
\* worker settles, every item is eventually started and the promise resolves.
C4_Completion ==
    (pc = "lib" /\ Len(items) >= 1 /\ concurrencyLimit >= 1)
        ~> (nextIndex = Len(items) /\ resolved.done)

\* C4 witness: a list longer than the limit has resolved although a worker rejected
C4_Witness ==
    /\ kind = "generic"
    /\ resolved.done
    /\ concurrencyLimit >= 1
    /\ Len(items) > concurrencyLimit
    /\ nextIndex = Len(items)
    /\ \E i \in 1..Len(items) : outcome[i].t = "rejected"

\* the arguments that are neither a flag nor the value of --branch or --tag
RECURSIVE positionals(_, _)
positionals(args, i) ==
    IF i > Len(args) THEN << >>
    ELSE IF args[i] \in {S_branch, S_tag} /\ i + 1 <= Len(args)
         THEN positionals(args, i + 2)
    ELSE IF startsWith(args[i], "-") THEN positionals(args, i + 1)
    ELSE <<args[i]>> \o positionals(args, i + 1)

\* C5: parseArgs makes the first positional argument the target and the second
\* the author filter; without a positional the target is "." and the filter
\* unset; the values of --branch and --tag are never positionals.
C5_Positionals ==
    pc = "parsed" =>
        LET p == positionals(argv, 1) IN
        /\ parsed.target = IF Len(p) >= 1 /\ TruthyStr(p[1]) THEN p[1] ELSE S_dot
        /\ parsed.user = IF Len(p) >= 2 THEN p[2] ELSE Undefined

\* --- reference notions for the aggregation claims, on the raw blame output
IsAuthorRecord(line) == Len(line) >= 1 /\ line[1] = "author "
IsBlank(a) == \A j \in 1..Len(a) : a[j] \in Whitespace

\* the identities of the "author " records of a blame output, in output order
authorRecords(lines) ==
    LET al == SelectSeq(lines, IsAuthorRecord)
    IN  [j \in 1..Len(al) |-> SubSeq(al[j], 2, Len(al[j]))]

\* how many line records of file i carry exactly the identity a
recordsOf(i, a) ==
    Cardinality({j \in 1..Len(blame[i].lines) :
                    /\ IsAuthorRecord(blame[i].lines[j])
                    /\ SubSeq(blame[i].lines[j], 2, Len(blame[i].lines[j])) = a})

occurrences(a) == SumTo([i \in 1..Len(blame) |-> recordsOf(i, a)], Len(blame))

Perms(n) == {f \in [1..n -> 1..n] : \A i, j \in 1..n : i # j => f[i] # f[j]}

\* the records the workers returned, concatenated in the order f
RECURSIVE foldOrder(_, _)
foldOrder(f, k) ==
    IF k = 0 THEN << >> ELSE foldOrder(f, k - 1) \o outcome[f[k]].a

\* C6: the AuthorTally is the same for every order in which the per-file
\* records are folded in, so for every completion order of the workers.
C6_Commutative ==
    (pc = "displayed" /\ kind = "general") =>
        \A f \in Perms(Len(files)) :
            countAuthors(foldOrder(f, Len(files)), EmptyObj) = authorCounts

\* C6 witness: two files with authors finished in the reverse of the file order
C6_Witness ==
    /\ pc = "displayed" /\ kind = "general"
    /\ Len(files) >= 2
    /\ outcome[1].a # << >> /\ outcome[2].a # << >>
    /\ outcome[1].a # outcome[2].a
    /\ SubSeq(allAuthors, 1, Len(outcome[2].a)) = outcome[2].a
    /\ allAuthors # foldOrder([i \in 1..Len(files) |-> i], Len(files))

\* C7: every identity that is not blank is mapped by the AuthorTally to its
\* number of occurrences (exact string equality) in all the per-file
\* sequences together; blank identities have no entry.
C7_TallyCounts ==
    (pc = "displayed" /\ kind = "general") =>
        \A a \in Identities :
            IF ~IsBlank(a) /\ occurrences(a) > 0
            THEN a \in DOMAIN authorCounts /\ authorCounts[a] = NumV(occurrences(a))
            ELSE a \notin DOMAIN authorCounts

\* C8: the FileTally has an entry path -> c exactly for the files whose
\* extraction counted c > 0 lines of the user.
C8_FileTally ==
    (pc = "displayed" /\ kind = "user") =>
        /\ DOMAIN userFileContributions =
               {files[i].rel : i \in {k \in 1..Len(files) : recordsOf(k, targetUser) > 0}}
        /\ \A i \in 1..Len(files) :
               recordsOf(i, targetUser) > 0 =>
                   userFileContributions[files[i].rel] = recordsOf(i, targetUser)
        /\ \A p \in DOMAIN userFileContributions : userFileContributions[p] > 0

\* C9: with a filter getAuthorsFromFile returns the number of line records
\* whose identity is exactly the filter; without one it returns the identities
\* of the "author " records in output order.
C9_ExtractorModes ==
    \A i \in 1..Len(blame) :
        (blame[i].status = "ok" /\ outcome[i].t # "none") =>
            /\ TruthyStr(targetUser) =>
                   /\ outcome[i].t = "obj"
                   /\ outcome[i].count = recordsOf(i, targetUser)
            /\ ~TruthyStr(targetUser) =>
                   /\ outcome[i].t = "arr"
                   /\ outcome[i].a = authorRecords(blame[i].lines)

\* C9 witness: with the filter "A", an output with a record of "A", a record
\* of " A" and nothing else was counted; and an output was returned as a sequence
C9_Witness ==
    \E i \in 1..Len(blame) :
        /\ blame[i].status = "ok"
        /\ TruthyStr(targetUser)
        /\ blame[i].lines = <<AuthorLine(S_spA), AuthorLine(S_A)>>
        /\ outcome[i].t = "obj" /\ outcome[i].count = 1

\* the records of the files whose blame did not fail, concatenated in file order
RECURSIVE survivors(_)
survivors(k) ==
    IF k = 0 THEN << >>
    ELSE survivors(k - 1) \o
         (IF blame[k].status = "ok" THEN authorRecords(blame[k].lines) ELSE << >>)

\* the FileTally of the files whose blame did not fail, built in file order
RECURSIVE survivorTally(_)
survivorTally(k) ==
    IF k = 0 THEN EmptyObj
    ELSE IF blame[k].status = "ok" /\ recordsOf(k, targetUser) > 0
         THEN SetProp(survivorTally(k - 1), files[k].rel, recordsOf(k, targetUser))
         ELSE survivorTally(k - 1)

\* C10: whichever files fail in blame, every file is still processed, the run
\* gets to its end, the final tally is the tally of the other files alone and
\* the files-processed count counts the failed files too.
C10_FailuresIsolated ==
    /\ (pc = "pool" /\ kind \in {"user", "general"}
            /\ \A i \in 1..Len(files) : st[i] = "done") => resolved.done
    /\ pc = "displayed" =>
        /\ \A i \in 1..Len(files) : st[i] = "done" /\ blame[i].status # "none"
        /\ summary.filesProcessed = Len(files)
        /\ kind = "general" =>
               authorCounts = countAuthors(survivors(Len(files)), EmptyObj)
        /\ kind = "user" =>
               userFileContributions = survivorTally(Len(files))

\* C10 witness: a run ended in which one file failed in blame and another
\* file had authors
C10_Witness ==
    /\ pc = "displayed"
    /\ \E i \in 1..Len(files) : blame[i].status = "error"
    /\ \E i \in 1..Len(files) :
         blame[i].status = "ok" /\ authorRecords(blame[i].lines) # << >>
    /\ summary.filesProcessed >= 2

\* the items whose worker has settled and whose then or catch handler has run
terminalItems == {i \in DOMAIN st : st[i] \in {"stored", "logged", "done"}}

\* C11: the progress callback has been invoked exactly once for every item
\* that reached a terminal state, whether its worker fulfilled or rejected, so
\* exactly as many times as there are items when processWithPool resolves.
C11_ProgressEveryItem ==
    /\ pc = "pool" => processedCount = Cardinality(terminalItems)
    /\ resolved.done => processedCount = Len(items)

\* --- reference translation of one .gitignore line, as the rule list states it
\* the trimmed line: the longest part with no blank at either end
refTrimmed(line) ==
    LET keep == {j \in 1..Len(line) : line[j] \notin Whitespace} IN
    IF keep = {} THEN << >>
    ELSE LET lo == CHOOSE j \in keep : \A k \in keep : j <= k
             hi == CHOOSE j \in keep : \A k \in keep : j >= k
         IN  SubSeq(line, lo, hi)

refDropped(t) == t = << >> \/ t[1] \in {"#", "!"}

refPattern(t) ==
    LET dir     == IF t[Len(t)] = "/" THEN SubSeq(t, 1, Len(t) - 1) \o <<"/", "**">> ELSE t
        slashes == {j \in 1..Len(dir) : dir[j] = "/"}
        deep    == IF slashes = {} THEN <<"**", "/">> \o dir ELSE dir
    IN  IF deep[1] = "/" THEN SubSeq(deep, 2, Len(deep)) ELSE deep

\* the lines of the file that was read, without their line breaks
RECURSIVE refLines(_)
refLines(c) ==
    LET brk == {j \in 1..Len(c) : c[j] = "\n"} IN
    IF brk = {} THEN <<c>>
    ELSE LET b == CHOOSE j \in brk : \A k \in brk : j <= k
         IN  <<SubSeq(c, 1, b - 1)>> \o refLines(SubSeq(c, b + 1, Len(c)))

RECURSIVE refPatterns(_)
refPatterns(ls) ==
    IF ls = << >> THEN << >>
    ELSE LET t == refTrimmed(Head(ls)) IN
         (IF refDropped(t) THEN << >> ELSE <<refPattern(t)>>) \o refPatterns(Tail(ls))

\* C12: parseGitignore maps the lines of the file, in order, by the reference
\* translation: trim; a blank line, a line starting with # and a line starting
\* with ! give no pattern; otherwise a trailing / becomes /**, then a rule
\* with no / gets the prefix **/, then a leading / is removed.
C12_Translation ==
    gitignore.status = "text" =>
        gitignorePatterns = refPatterns(refLines(gitignore.content))

\* C12 witness: a file with an anchored rule and a directory rule was parsed
\* into the two patterns a.txt and src/**
C12_Witness ==
    /\ gitignore.status = "text"
    /\ gitignore.content = <<"/", "a", ".txt", "\n", "src", "/">>
    /\ gitignorePatterns = << <<"a", ".txt">>, <<"src", "/", "**">> >>

\* the hypothesis of the idempotence statement on a pattern
alreadyTranslated(p) ==
    /\ p # << >>
    /\ p[Len(p)] # "/"
    /\ \E j \in 1..Len(p) : p[j] = "/"
    /\ p[1] # "/"

\* C13 as stated: translating again a translated pattern that has no
\* trailing /, contains a / and has no leading / returns the same pattern.
C13_IdempotentAsStated ==
    \A k \in 1..Len(gitignorePatterns) :
        alreadyTranslated(gitignorePatterns[k]) =>
            translateLine(gitignorePatterns[k]) = <<gitignorePatterns[k]>>

\* C13, amended: the same, for a translated pattern that in addition does not
\* start with #, with ! or with a blank.
C13_Idempotent ==
    \A k \in 1..Len(gitignorePatterns) :
        LET p == gitignorePatterns[k] IN
        (alreadyTranslated(p) /\ p[1] \notin {"#", "!"} \cup Whitespace) =>
            translateLine(p) = <<p>>

\* C13 witness: the patterns **/*.txt and src/** came out of a file and are
\* what the hypothesis is about
C13_Witness ==
    /\ gitignorePatterns = << <<"**", "/", "*", ".txt">>, <<"src", "/", "**">> >>
    /\ \A k \in 1..2 : alreadyTranslated(gitignorePatterns[k])

\* a path is excluded under a pattern list when some pattern of it matches
excludedUnder(path, P) == \E j \in 1..Len(P) : globMatch(P[j], path)

\* the files findFiles has to return when exclusion under P ++ Q is exclusion
\* under P or under Q
keptUnder(P, Q) ==
    LET keep(e) == e.isFile /\ ~(excludedUnder(e.path, P) \/ excludedUnder(e.path, Q))
        kept    == SelectSeq(scanned, keep)
    IN  [j \in 1..Len(kept) |-> join(targetDir, kept[j].path)]

\* C14: findFiles excludes a path under the concatenation P ++ Q of two
\* pattern lists exactly when it is excluded under P or under Q, wherever the
\* list is cut; no pattern and no position in the list re-includes a path.
C14_PureOr ==
    scanned # << >> =>
        LET all == excludePatterns \o gitignorePatterns IN
        \A k \in 0..Len(all) :
            files = keptUnder(SubSeq(all, 1, k), SubSeq(all, k + 1, Len(all)))

\* C14 witness: a.txt is matched by two patterns of the file and left out,
\* c.png by a built-in pattern, and the file no pattern matches is returned
C14_Witness ==
    /\ pc = "found"
    /\ gitignorePatterns = << <<"a", ".txt">>, <<"**", "/", "*", ".txt">> >>
    /\ Len(scanned) = 4
    /\ files = <<join(targetDir, <<"__proto__">>)>>

\* the chunks that occur in identities and paths, in code unit order
CodeOrder == <<" ", "..", ".txt", "/", "A", "__proto__", "a", "b", "constructor", "src">>
codeRank(c) == CHOOSE j \in 1..Len(CodeOrder) : CodeOrder[j] = c

\* a < b as strings
RECURSIVE lexLess(_, _)
lexLess(a, b) ==
    IF b = << >> THEN FALSE
    ELSE IF a = << >> THEN TRUE
    ELSE IF Head(a) = Head(b) THEN lexLess(Tail(a), Tail(b))
    ELSE codeRank(Head(a)) < codeRank(Head(b))

\* C15: the ranked list is ordered by count descending and, among equal
\* counts, by identity or path ascending, so it is the same whatever the
\* order in which the workers completed.
C15_RankedOrder ==
    pc = "displayed" =>
        \A j, k \in 1..Len(sorted) :
            j < k =>
                /\ sorted[j].value.t = "num" /\ sorted[k].value.t = "num"
                /\ \/ sorted[j].value.n > sorted[k].value.n
                   \/ /\ sorted[j].value.n = sorted[k].value.n
                      /\ lexLess(sorted[j].key, sorted[k].key)

\* the identities the tally loop dropped: the blank ones
droppedBlank == Cardinality({j \in 1..Len(allAuthors) : IsBlank(allAuthors[j])})

\* sum of the counts of the AuthorTally, when every count is a number
RECURSIVE sumCounts(_)
sumCounts(obj) ==
    IF DOMAIN obj = {} THEN 0
    ELSE LET k == CHOOSE x \in DOMAIN obj : TRUE IN
         obj[k].n + sumCounts([x \in DOMAIN obj \ {k} |-> obj[x]])

\* C16: in general mode the summary's total of lines analyzed is the sum of
\* the lengths of all per-file sequences, blank identities included, which is
\* the sum of all AuthorTally counts plus the number of dropped blank
\* identities; its files-processed count is the number of discovered files.
C16_GeneralSummary ==
    (pc = "displayed" /\ kind = "general") =>
        /\ summary.totalLines =
               SumTo([i \in 1..Len(files) |-> Len(outcome[i].a)], Len(files))
        /\ \A a \in DOMAIN authorCounts : authorCounts[a].t = "num"
        /\ summary.totalLines = sumCounts(authorCounts) + droppedBlank
        /\ summary.filesProcessed = Len(files)

\* the state of item i as the claims name it
itemState(i) ==
    CASE st[i] = "pending" -> "Pending"
      [] st[i] \in {"running", "hung"} -> "Running"
      [] outcome[i].t = "rejected" -> "Failed"
      [] OTHER -> "Completed"

\* C17: the worker is invoked exactly once per item: within a run the state
\* of an item only moves Pending -> Running -> Completed or Failed, never
\* back, and every item has been through it when the run resolves.
C17_OneAttempt ==
    /\ [](resolved.done =>
            \A i \in 1..Len(items) : itemState(i) \in {"Completed", "Failed"})
    /\ [][pc = "pool" =>
            \A i \in 1..Len(items) :
                \/ itemState(i)' = itemState(i)
                \/ itemState(i) = "Pending" /\ itemState(i)' = "Running"
                \/ itemState(i) = "Running" /\ itemState(i)' \in {"Completed", "Failed"}]_vars

\* C17 witness: a run over more items than slots has resolved with an item
\* Completed and an item Failed
C17_Witness ==
    /\ resolved.done
    /\ Len(items) > concurrencyLimit
    /\ \E i, j \in 1..Len(items) :
           itemState(i) = "Completed" /\ itemState(j) = "Failed"

\* C18: with a limit of at least 1, after the initial loop and after every
\* completion handler has run to its end, as long as some item has not been
\* started the number in flight is the smaller of the limit and the number
\* of items.
C18_GreedyRefill ==
    (pc = "pool" /\ concurrencyLimit >= 1 /\ nextIndex < Len(items)) =>
        /\ runningCount = IF concurrencyLimit <= Len(items)
                          THEN concurrencyLimit ELSE Len(items)
        /\ runningCount = Cardinality({i \in 1..Len(items) : st[i] \notin {"pending", "done"}})

\* C18 witness: an item is done, its slot was refilled, a settled worker
\* whose handlers have not run yet still holds its slot, an item is waiting
C18_Witness ==
    /\ pc = "pool"
    /\ concurrencyLimit >= 1
    /\ nextIndex < Len(items)
    /\ runningCount = concurrencyLimit
    /\ \E i \in 1..Len(items) : st[i] = "done"
    /\ \E i \in 1..Len(items) : st[i] \in {"fulfilled", "rejected"}

\* the items whose worker never settles
hungItems == {i \in DOMAIN st : st[i] = "hung"}

\* every item but the hung ones has been started and is through its handlers
othersTerminal ==
    pc # "lib" /\ \A i \in 1..Len(items) : i \in hungItems \/ st[i] = "done"

\* C19 as stated: for every limit and every item list, when exactly one
\* worker never settles and every other started worker settles, every other
\* item is eventually started and reaches a terminal state.
C19_HangIsolationAsStated ==
    ([](Cardinality(hungItems) <= 1) /\ <>(Cardinality(hungItems) = 1))
        => <>othersTerminal

\* C19, amended: the same for a limit of at least 2.
C19_HangIsolation ==
    (concurrencyLimit >= 2
        /\ [](Cardinality(hungItems) <= 1) /\ <>(Cardinality(hungItems) = 1))
        => <>othersTerminal

\* C19 witness: under the limit 2 one of three workers hangs and the two
\* other items are done, the one started on the slot the second freed
C19_Witness ==
    /\ pc = "pool"
    /\ concurrencyLimit = 2
    /\ Len(items) = 3
    /\ Cardinality(hungItems) = 1
    /\ \A i \in 1..Len(items) : i \in hungItems \/ st[i] = "done"
    /\ ~resolved.done

\* C20: processWithPool called with an empty item list completes, resolving
\* with an empty sequence. (With no item no handler is ever queued, so the
\* promise is resolved when the call returns or never.)
C20_EmptyResolves ==
    (pc = "pool" /\ Len(items) = 0) =>
        /\ resolved.done
        /\ resolved.value = << >>

\* the items whose worker fulfilled
fulfilledItems == {i \in DOMAIN outcome : outcome[i].t \notin {"none", "rejected"}}

\* C21: every call of updateProgress reports current = previous + 1 with
\* 1 <= current <= total, total being the number of files; when
\* processWithPool resolves the counter is the number of items whose worker
\* fulfilled; it never advances for an item whose worker rejected.
C21_ProgressCounter ==
    /\ [](resolved.done => processedCount = Cardinality(fulfilledItems))
    /\ [][(pc = "pool" /\ processedCount' # processedCount) =>
            /\ processedCount' = processedCount + 1
            /\ 1 <= processedCount' /\ processedCount' <= Len(items)
            /\ \E i \in 1..Len(items) :
                   /\ st[i] = "fulfilled" /\ st'[i] = "stored"
                   /\ outcome[i].t # "rejected"]_vars

\* C21 witness: a run has resolved after two progress reports and one
\* rejection
C21_Witness ==
    /\ resolved.done
    /\ processedCount = 2
    /\ Cardinality(fulfilledItems) = 2
    /\ \E i \in 1..Len(items) : outcome[i].t = "rejected"

\* C22: resolve is called at most once, and only when every item has been
\* started, no worker is in flight and the result of every fulfilled worker
\* is stored at its index; after it nothing is stored and no progress is
\* reported.
C22_ResolutionSafety ==
    /\ [](resolveCalls <= 1)
    /\ [](resolved.done =>
            /\ nextIndex = Len(items)
            /\ runningCount = 0
            /\ \A i \in 1..Len(items) :
                   /\ st[i] = "done"
                   /\ outcome[i].t # "rejected" => results[i] = outcome[i]
                   /\ outcome[i].t = "rejected" => results[i] = Hole)
    /\ [][resolved.done =>
            /\ results' = results
            /\ processedCount' = processedCount
            /\ resolved' = resolved]_vars

\* C22 witness: resolve was called once, by the finally handler of the last
\* of several items, with a stored result and a hole
C22_Witness ==
    /\ resolveCalls = 1
    /\ resolved.done
    /\ Len(items) >= 2
    /\ \E i, j \in 1..Len(items) : results[i] = Hole /\ results[j] # Hole
    /\ pc = "pool"

\* C23: only the items whose worker rejected are absent from the sequence
\* processWithPool resolves with: every fulfilled worker contributes one
\* entry whatever its value (0 and the other falsy values included), so the
\* length is the number of items minus the number of rejections.
C23_OnlyFailedAbsent ==
    resolved.done =>
        /\ Len(resolved.value) =
               Len(items) - Cardinality({i \in 1..Len(items) : outcome[i].t = "rejected"})
        /\ resolved.value = fulfilledValues(outcome)

\* batch sizes the two pipelines are compared under: the program's, and the
\* small ones that cut the file list of a run into several batches
BatchSizes == (1..MaxFiles) \cup {BATCH_SIZE}

\* C24: for the same file list and the same blame output of every file, the
\* batch pipeline of gala.ts and the pool pipeline of cli.ts end with the
\* same AuthorTally, the same FileTally, the same total of lines and the same
\* files-processed count, whatever the order the pool's workers completed in.
C24_BatchEquivalence ==
    pc = "displayed" =>
        \A size \in BatchSizes :
            /\ kind = "general" =>
                   LET all    == legacyGeneralLoop(blame, 0, size, << >>)
                       counts == legacyCountAuthors(all, EmptyObj)
                   IN  /\ counts = authorCounts
                       /\ legacyGeneralSummary(all, counts, files) = summary
            /\ kind = "user" =>
                   LET tally == legacyUserLoop(files, blame, targetDir, targetUser,
                                               0, size, EmptyObj)
                   IN  /\ tally = userFileContributions
                       /\ legacyUserSummary(tally, files) = summary

\* C24 witness: a general run of two files whose workers completed in the
\* reverse order, so that allAuthors differs from the batch pipeline's
C24_Witness ==
    /\ pc = "displayed" /\ kind = "general"
    /\ Len(files) = 2
    /\ Len(allAuthors) = 2
    /\ allAuthors # legacyGeneralLoop(blame, 0, 1, << >>)
    /\ authorCounts # EmptyObj

C25_RemovedAfterAnalysis ==
    /\ remote.isRemote
    /\ remote.handlers
    /\ pc = "exit"
    /\ remote.tempDir = "removed"

====
